---- MODULE Spec2Model ----
(***************************************************************************)
(* A model of the daily news emailer: the news-API collector, the RSS      *)
(* collector, the two summarization providers with their fence-stripping   *)
(* post-processing, the delivery step and the orchestrator main.           *)
(*                                                                         *)
(* Texts are sequences of one-character strings.  An optional text (a      *)
(* Python str or None) is a record [some, text]; None is the record with   *)
(* some = FALSE.                                                           *)
(***************************************************************************)
EXTENDS Integers, Sequences, FiniteSets, TLC

VARIABLES pc, idx, articles, log, calls, summary, hfResult, claudeResult,
          sendResult, raisedIn, feeds, received, raw, once, twice

vars == <<pc, idx, articles, log, calls, summary, hfResult, claudeResult,
          sendResult, raisedIn, feeds, received, raw, once, twice>>

(***************************************************************************)
(* Bounds of the model and constants of the program.                       *)
(***************************************************************************)
MaxResults == 2

MaxEntries == 2

MaxPieces == 4

NumFeeds == 4

NumQueries == 2

HFArticleLimit == 20

(***************************************************************************)
(* Texts.                                                                  *)
(***************************************************************************)
\* the grave accent (backtick, U+0060), which a TLA+ string cannot hold; it is
\* written as the one-character string "^", which stands for no other character
Tick == "^"

Fence == <<Tick, Tick, Tick>>

FenceHtml == <<Tick, Tick, Tick, "h", "t", "m", "l">>

ErrorWord == <<"E", "r", "r", "o", "r">>

\* the characters str.strip() removes: every character str.isspace() holds
\* of.  One that a TLA+ string cannot hold is written by its code point.
Whitespace ==
    {" ", "\t", "\n", "\r", "\f", "U+000B", "U+001C", "U+001D", "U+001E",
     "U+001F", "U+0085", "U+00A0", "U+1680", "U+2000", "U+2001", "U+2002",
     "U+2003", "U+2004", "U+2005", "U+2006", "U+2007", "U+2008", "U+2009",
     "U+200A", "U+2028", "U+2029", "U+202F", "U+205F", "U+3000"}

None == [some |-> FALSE, text |-> <<>>]

Str(t) == [some |-> TRUE, text |-> t]

\* not x, for an optional text x: None and "" are falsy
Falsy(x) == (~x.some) \/ x.text = <<>>

\* s.startswith(p)
StartsWith(s, p) == Len(s) >= Len(p) /\ SubSeq(s, 1, Len(p)) = p

\* s.endswith(p)
EndsWith(s, p) ==
    Len(s) >= Len(p) /\ SubSeq(s, Len(s) - Len(p) + 1, Len(s)) = p

\* the positions at which p occurs in s
Occurrences(s, p) ==
    {i \in 1..(Len(s) - Len(p) + 1) : SubSeq(s, i, i + Len(p) - 1) = p}

\* p in s
Contains(s, p) == Occurrences(s, p) # {}

\* s.replace(p, "", 1): s without the first occurrence of p
ReplaceFirst(s, p) ==
    IF Occurrences(s, p) = {} THEN s
    ELSE LET i == CHOOSE k \in Occurrences(s, p) :
                      \A j \in Occurrences(s, p) : k <= j
         IN SubSeq(s, 1, i - 1) \o SubSeq(s, i + Len(p), Len(s))

\* s.rsplit(p, 1)[0]: what precedes the last occurrence of p
RSplitHead(s, p) ==
    IF Occurrences(s, p) = {} THEN s
    ELSE LET i == CHOOSE k \in Occurrences(s, p) :
                      \A j \in Occurrences(s, p) : k >= j
         IN SubSeq(s, 1, i - 1)

\* s.strip()
Trim(s) ==
    LET keep == {i \in 1..Len(s) : s[i] \notin Whitespace}
    IN IF keep = {} THEN <<>>
       ELSE LET lo == CHOOSE k \in keep : \A j \in keep : k <= j
                hi == CHOOSE k \in keep : \A j \in keep : k >= j
            IN SubSeq(s, lo, hi)

\* the fence-stripping step both providers apply to the returned text
StripFences(t) ==
    LET a == IF StartsWith(t, FenceHtml) THEN ReplaceFirst(t, FenceHtml) ELSE t
        b == IF StartsWith(a, Fence) THEN ReplaceFirst(a, Fence) ELSE a
        c == IF EndsWith(b, Fence) THEN RSplitHead(b, Fence) ELSE b
    IN Trim(c)

(***************************************************************************)
(* The summarization providers.  A model response is a text or a failure:  *)
(* the client raises (transport error, non-2xx status, missing             *)
(* credential), it raises requests.exceptions.HTTPError, or the body       *)
(* holds no text.                                                          *)
(***************************************************************************)
Failure == [ok |-> FALSE, kind |-> "error", text |-> <<>>]

HttpFailure == [ok |-> FALSE, kind |-> "http", text |-> <<>>]

Malformed == [ok |-> FALSE, kind |-> "malformed", text |-> <<>>]

Reply(t) == [ok |-> TRUE, kind |-> "text", text |-> t]

\* generate_summary_with_claude from the response on: the stripped text, or
\* None when the except clause is taken
ClaudeDigest(resp) ==
    IF resp.ok THEN Str(StripFences(resp.text)) ELSE None

\* generate_summary_with_huggingface from the response on: strip, give up on
\* an empty text, strip again
HFDigest(resp) ==
    IF ~resp.ok THEN None
    ELSE LET s == StripFences(resp.text)
         IN IF s = <<>> THEN None ELSE Str(StripFences(s))

\* the description slice of the prompt construction raises on a None
\* description among the first HFArticleLimit articles
HFPromptRaises(arts) ==
    \E i \in 1..Len(arts) :
        i <= HFArticleLimit /\ arts[i].description = "None"

\* the prompt construction of generate_summary_with_claude reads only keys
\* every collected article has
ClaudePromptRaises(arts) == FALSE

\* generate_summary_local, which main does not call: the summary of the
\* local pipeline wrapped in a div, or None with an error record when the
\* import or the pipeline fails
LocalHtml(t) ==
    <<"<", "d", "i", "v", ">", "<", "h", "2", ">", "T", "o", "d", "a", "y",
      "'", "s", " ", "N", "e", "w", "s", " ", "S", "u", "m", "m", "a", "r",
      "y", "<", "/", "h", "2", ">", "<", "p", ">">>
    \o t \o <<"<", "/", "p", ">", "<", "/", "d", "i", "v", ">">>

GenerateSummaryLocal(outcome, t) ==
    IF outcome = "import_error"
    THEN [result |-> None,
          log |-> <<[level |-> "error", msg |-> "transformers library not installed",
                     ref |-> ""]>>]
    ELSE IF outcome = "error"
    THEN [result |-> None,
          log |-> <<[level |-> "error", msg |-> "Error with local model",
                     ref |-> ""]>>]
    ELSE [result |-> Str(LocalHtml(t)),
          log |-> <<[level |-> "info", msg |-> "Summary generated with local model",
                     ref |-> ""]>>]

(***************************************************************************)
(* Log records: a level, the message and what the message refers to (a     *)
(* query number, a failing step).                                          *)
(***************************************************************************)
Log(level, msg, ref) == [level |-> level, msg |-> msg, ref |-> ref]

(***************************************************************************)
(* The news-API collector, fetch_news_from_news_api.                       *)
(* A result item is a JSON object whose description is a text or null, or  *)
(* a value that is no object (the mapping raises on it).                   *)
(***************************************************************************)
Items == {[valid |-> TRUE,  description |-> "text"],
          [valid |-> TRUE,  description |-> "null"],
          [valid |-> FALSE, description |-> "missing"]}

ResultLists == UNION {[1..n -> Items] : n \in 0..MaxResults}

\* what requests.get(url) followed by response.json() can give
ApiResponses ==
    {[raises |-> TRUE, status |-> "none", hasResults |-> FALSE,
      results |-> <<>>, hasMessage |-> FALSE]}
    \cup {[raises |-> FALSE, status |-> "success", hasResults |-> TRUE,
           results |-> rs, hasMessage |-> FALSE] : rs \in ResultLists}
    \cup {[raises |-> FALSE, status |-> st, hasResults |-> FALSE,
           results |-> <<>>, hasMessage |-> m] :
              st \in {"success", "error"}, m \in BOOLEAN}

\* item.get("description", ""): a JSON null is kept as None
ItemDescription(item) ==
    IF item.description = "null" THEN "None"
    ELSE IF item.description = "missing" THEN ""
    ELSE "text"

\* the Article built from a result item of query i
ApiArticle(i, item) ==
    [source |-> "api", from |-> i, description |-> ItemDescription(item)]

\* data.get('status') == 'success' and 'results' in data
IsSuccess(data) == data.status = "success" /\ data.hasResults

\* the items mapped before the first one the mapping raises on
MappedPrefix(items) ==
    LET bad == {k \in 1..Len(items) : ~items[k].valid}
    IN IF bad = {} THEN items
       ELSE SubSeq(items, 1, (CHOOSE k \in bad : \A j \in bad : k <= j) - 1)

\* the else branch of the status check: one error record, and one more for
\* the message of the response
NonSuccessLog(i, data) ==
    <<Log("error", "No results from endpoint", ToString(i))>>
    \o (IF data.hasMessage
        THEN <<Log("error", "API message", ToString(i))>> ELSE <<>>)

\* a status check that treats a non-success response as an exception
ApiResponseEffectAborting(i, data, arts, lg) ==
    LET lg1 == Append(lg, Log("info", "Fetching from NewsData API", ToString(i)))
    IN IF data.raises \/ ~IsSuccess(data)
       THEN [articles |-> arts, log |-> lg1, raised |-> TRUE]
       ELSE LET kept == MappedPrefix(data.results)
            IN [articles |-> arts \o [k \in 1..Len(kept) |-> ApiArticle(i, kept[k])],
                log |-> Append(lg1, Log("info", "Fetched articles", ToString(i))),
                raised |-> Len(kept) < Len(data.results)]

\* one iteration of the loop over link_list, up to an exception
ApiResponseEffect(i, data, arts, lg) ==
    LET lg1 == Append(lg, Log("info", "Fetching from NewsData API", ToString(i)))
    IN IF data.raises
       THEN [articles |-> arts, log |-> lg1, raised |-> TRUE]
       ELSE IF IsSuccess(data)
       THEN LET kept == MappedPrefix(data.results)
            IN [articles |-> arts \o [k \in 1..Len(kept) |-> ApiArticle(i, kept[k])],
                log |-> Append(lg1, Log("info", "Fetched articles", ToString(i))),
                raised |-> Len(kept) < Len(data.results)]
       ELSE [articles |-> arts, log |-> lg1 \o NonSuccessLog(i, data),
             raised |-> FALSE]

Call(fn, args, body) == [fn |-> fn, args |-> args, body |-> body]

\* main awaits fetch_news_from_news_api: the API key is read and checked
FetchNewsApiStart ==
    /\ pc = "main_start"
    /\ \E key \in BOOLEAN :
          IF key
          THEN /\ log' = Append(log, Log("info", "Fetching news from API endpoints", ""))
               /\ idx' = 1
               /\ pc' = "fetch_loop"
          ELSE /\ log' = Append(log, Log("error", "NEWSDATAIO_API_KEY not found", ""))
               /\ idx' = idx
               /\ pc' = "fetch_done"
    /\ calls' = Append(calls, Call("fetch_news_from_news_api", <<>>, None))
    /\ UNCHANGED <<articles, summary, hfResult, claudeResult, sendResult,
                   raisedIn, feeds, received, raw, once, twice>>

\* one query of link_list: the request, the status check, the mapping; the
\* except clause and the return after the last query
FetchNewsApiQuery ==
    /\ pc = "fetch_loop"
    /\ idx <= NumQueries
    /\ \E data \in ApiResponses :
          LET eff == ApiResponseEffect(idx, data, articles, log)
          IN /\ articles' = eff.articles
             /\ received' = Append(received, data)
             /\ IF eff.raised
                THEN /\ log' = Append(eff.log,
                                 Log("error", "News API request incomplete", ToString(idx)))
                     /\ idx' = idx
                     /\ pc' = "fetch_done"
                ELSE IF idx = NumQueries
                THEN /\ log' = Append(eff.log, Log("info", "Total articles collected", ""))
                     /\ idx' = idx + 1
                     /\ pc' = "fetch_done"
                ELSE /\ log' = eff.log
                     /\ idx' = idx + 1
                     /\ pc' = "fetch_loop"
    /\ UNCHANGED <<calls, summary, hfResult, claudeResult, sendResult,
                   raisedIn, feeds, raw, once, twice>>

(***************************************************************************)
(* The orchestrator main from the summarization on, and Delivery.          *)
(***************************************************************************)
\* texts the model service may answer with
MainTexts == {<<>>, <<"x">>, ErrorWord, Fence,
              FenceHtml \o <<"x">> \o Fence,
              Fence \o <<" ">> \o Fence \o <<"x">>}

ModelReplies ==
    {Failure, HttpFailure, Malformed} \cup {Reply(t) : t \in MainTexts}

\* the records generate_summary_with_huggingface logs for a response: the
\* response type once output_text is read, then the outcome; the HTTPError
\* clause logs two error records
HFLog(resp) ==
    IF resp.kind = "error"
    THEN <<Log("error", "Error calling Hugging Face", "")>>
    ELSE IF resp.kind = "http"
    THEN <<Log("error", "HTTP Error calling Hugging Face", ""),
           Log("error", "Response", "")>>
    ELSE <<Log("info", "Hugging Face response type", ""),
           IF HFDigest(resp).some
           THEN Log("info", "Summary generated successfully with Hugging Face", "")
           ELSE Log("error", "Error calling Hugging Face", "")>>

\* the record generate_summary_with_claude logs for a response
ClaudeLog(resp) ==
    IF resp.ok THEN Log("info", "Summary generate successfully", "")
    ELSE Log("error", "Error calling LLM", "")

\* a fallback test that looks at emptiness alone
FallbackNeededOnEmpty(s) == Falsy(s)

\* not summary or "Error" in summary
FallbackNeeded(s) == Falsy(s) \/ Contains(s.text, ErrorWord)

\* a fallback that keeps the free-tier text when the primary gives nothing
SummaryKeepingFreeTier(hf, cl) == IF cl.some THEN cl ELSE hf

\* summary = generate_summary_with_claude(articles)
SummaryAfterFallback(hf, cl) == cl

\* summary = generate_summary_with_huggingface(articles)
CallHuggingface ==
    /\ pc = "fetch_done"
    /\ calls' = Append(calls, Call("generate_summary_with_huggingface", articles, None))
    /\ IF HFPromptRaises(articles)
       THEN /\ raisedIn' = "generate_summary_with_huggingface"
            /\ pc' = "raised"
            /\ UNCHANGED <<hfResult, summary, log>>
       ELSE /\ \E resp \in ModelReplies :
                  /\ hfResult' = HFDigest(resp)
                  /\ summary' = HFDigest(resp)
                  /\ log' = log \o HFLog(resp)
            /\ pc' = "fallback_check"
            /\ UNCHANGED raisedIn
    /\ UNCHANGED <<idx, articles, claudeResult, sendResult, feeds, received, raw, once, twice>>

\* the fallback branch of main is taken
CallClaudeFallback ==
    /\ pc = "fallback_check"
    /\ FallbackNeeded(summary)
    /\ calls' = Append(calls, Call("generate_summary_with_claude", articles, None))
    /\ IF ClaudePromptRaises(articles)
       THEN /\ raisedIn' = "generate_summary_with_claude"
            /\ pc' = "raised"
            /\ log' = Append(log, Log("warning", "Error in HF: Fall back on Claude", ""))
            /\ UNCHANGED <<claudeResult, summary>>
       ELSE /\ \E resp \in ModelReplies :
                  /\ claudeResult' = ClaudeDigest(resp)
                  /\ summary' = SummaryAfterFallback(summary, ClaudeDigest(resp))
                  /\ log' = log \o <<Log("warning", "Error in HF: Fall back on Claude", ""),
                                     ClaudeLog(resp)>>
            /\ pc' = "send"
            /\ UNCHANGED raisedIn
    /\ UNCHANGED <<idx, articles, hfResult, sendResult, feeds, received, raw, once, twice>>

\* the fallback branch of main is not taken
SkipFallback ==
    /\ pc = "fallback_check"
    /\ ~FallbackNeeded(summary)
    /\ pc' = "send"
    /\ UNCHANGED <<idx, articles, log, calls, summary, hfResult, claudeResult,
                   sendResult, raisedIn, feeds, received, raw, once, twice>>

Digits == {"0", "1", "2", "3", "4", "5", "6", "7", "8", "9"}

\* int(p) succeeds (for the unsigned decimal values drawn here)
PortIsInt(p) == p # <<>> /\ \A i \in 1..Len(p) : p[i] \in Digits

\* values of SMTP_PORT in the environment; unset gives the default "587"
Ports == {<<"5", "8", "7">>, <<"a">>, <<>>}

\* where the SMTP session may fail
SmtpFailures == {"none", "connect", "starttls", "login", "sendmail"}

\* send_email(subject, body) with SMTP_PORT = port and the session failing
\* at failAt: the port is converted before the try block is entered
SendEmailEffect(port, body, failAt) ==
    IF ~PortIsInt(port)
    THEN [raised |-> TRUE, result |-> "unset", log |-> <<>>]
    ELSE IF ~body.some
    THEN [raised |-> FALSE, result |-> "False",
          log |-> <<Log("error", "Error sending email", "MIMEText")>>]
    ELSE IF failAt # "none"
    THEN [raised |-> FALSE, result |-> "False",
          log |-> <<Log("error", "Error sending email", failAt)>>]
    ELSE [raised |-> FALSE, result |-> "True",
          log |-> <<Log("info", "Email sent successfully", "")>>]

\* success = send_email(subject, summary)
SendEmail ==
    /\ pc = "send"
    /\ calls' = Append(calls, Call("send_email", <<>>, summary))
    /\ \E port \in Ports, failAt \in SmtpFailures :
          LET eff == SendEmailEffect(port, summary, failAt)
          IN /\ sendResult' = eff.result
             /\ log' = log \o eff.log
             /\ raisedIn' = IF eff.raised THEN "send_email" ELSE raisedIn
             /\ pc' = IF eff.raised THEN "raised" ELSE "done"
    /\ UNCHANGED <<idx, articles, summary, hfResult, claudeResult, feeds, received,
                   raw, once, twice>>

(***************************************************************************)
(* What the configured RSS feeds serve.                                    *)
(***************************************************************************)
Feeds == 1..NumFeeds

FeedOutcomes == [raises : {FALSE}, entries : 0..MaxEntries]
                \cup {[raises |-> TRUE, entries |-> 0]}

FeedWorlds == [Feeds -> FeedOutcomes]

\* the worlds in which every feed answers, with no entry or with one
ServingWorlds == [Feeds -> {[raises |-> FALSE, entries |-> n] : n \in 0..1}]

Init ==
    /\ pc = "main_start"
    /\ idx = 0
    /\ articles = <<>>
    /\ log = <<>>
    /\ calls = <<>>
    /\ summary = None
    /\ hfResult = None
    /\ claudeResult = None
    /\ sendResult = "unset"
    /\ raisedIn = "none"
    /\ feeds \in ServingWorlds
    /\ received = <<>>
    /\ raw = <<>>
    /\ once = <<>>
    /\ twice = <<>>

Next ==
    \/ FetchNewsApiStart
    \/ FetchNewsApiQuery
    \/ CallHuggingface
    \/ CallClaudeFallback
    \/ SkipFallback
    \/ SendEmail

Spec == Init /\ [][Next]_vars

(***************************************************************************)
(* The RSS collector, fetch_news_from_raw_rss, run on its own.             *)
(***************************************************************************)
\* the entries a parsed feed may hold; a field is a text, the empty text,
\* None, or missing
Entries == {[summary |-> "text", description |-> "missing"],
            [summary |-> "missing", description |-> "missing"],
            [summary |-> "missing", description |-> "text"],
            [summary |-> "None", description |-> "text"],
            [summary |-> "", description |-> "text"]}

\* entry.get("summary", entry.get("description", ""))
EntryDescription(e) ==
    IF e.summary # "missing" THEN e.summary
    ELSE IF e.description # "missing" THEN e.description
    ELSE ""

\* the Article built from an entry of feed f
RssArticle(f, e) ==
    [source |-> "rss", from |-> f, description |-> EntryDescription(e)]

\* feedparser.parse(feed_url) returns: every entry is appended
FetchRssFeedParsed ==
    /\ pc = "rss_loop"
    /\ idx <= NumFeeds
    /\ ~feeds[idx].raises
    /\ \E es \in [1..feeds[idx].entries -> Entries] :
          articles' = articles \o [k \in 1..Len(es) |-> RssArticle(idx, es[k])]
    /\ log' = Append(log, Log("info", "RSS request complete", ToString(idx)))
    /\ idx' = idx + 1
    /\ pc' = IF idx = NumFeeds THEN "rss_done" ELSE "rss_loop"
    /\ UNCHANGED <<calls, summary, hfResult, claudeResult, sendResult,
                   raisedIn, feeds, received, raw, once, twice>>

\* feedparser.parse(feed_url) raises: the except clause around the loop
\* is taken and the function returns
FetchRssFeedRaised ==
    /\ pc = "rss_loop"
    /\ idx <= NumFeeds
    /\ feeds[idx].raises
    /\ log' = Append(log, Log("error", "Error: RSS request incomplete", ToString(idx)))
    /\ pc' = "rss_done"
    /\ UNCHANGED <<idx, articles, calls, summary, hfResult, claudeResult,
                   sendResult, raisedIn, feeds, received, raw, once, twice>>

InitRss ==
    /\ pc = "rss_loop"
    /\ idx = 1
    /\ articles = <<>>
    /\ log = <<>>
    /\ calls = <<>>
    /\ summary = None
    /\ hfResult = None
    /\ claudeResult = None
    /\ sendResult = "unset"
    /\ raisedIn = "none"
    /\ feeds \in FeedWorlds
    /\ received = <<>>
    /\ raw = <<>>
    /\ once = <<>>
    /\ twice = <<>>

NextRss == FetchRssFeedParsed \/ FetchRssFeedRaised

SpecRss == InitRss /\ [][NextRss]_vars

(***************************************************************************)
(* The post-processing of the providers, run on every text built from a    *)
(* few pieces.                                                             *)
(***************************************************************************)
Pieces == {Fence, <<"h", "t", "m", "l">>, <<" ">>, <<"\n">>, <<"\t">>, <<"x">>}

RECURSIVE Flatten(_)
Flatten(ps) == IF ps = <<>> THEN <<>> ELSE Head(ps) \o Flatten(Tail(ps))

Texts == {Flatten(ps) : ps \in UNION {[1..n -> Pieces] : n \in 0..MaxPieces}}

\* the fence-stripping step applied to the text the model returned
StripOnce ==
    /\ pc = "strip_start"
    /\ once' = StripFences(raw)
    /\ pc' = "strip_once"
    /\ UNCHANGED <<idx, articles, log, calls, summary, hfResult, claudeResult,
                   sendResult, raisedIn, feeds, received, raw, twice>>

\* the step applied to its own result
StripAgain ==
    /\ pc = "strip_once"
    /\ twice' = StripFences(once)
    /\ pc' = "strip_twice"
    /\ UNCHANGED <<idx, articles, log, calls, summary, hfResult, claudeResult,
                   sendResult, raisedIn, feeds, received, raw, once>>

\* both providers receive the same text from their model
PostprocessBoth ==
    /\ pc = "strip_twice"
    /\ claudeResult' = ClaudeDigest(Reply(raw))
    /\ hfResult' = HFDigest(Reply(raw))
    /\ pc' = "strip_done"
    /\ UNCHANGED <<idx, articles, log, calls, summary, sendResult, raisedIn,
                   feeds, received, raw, once, twice>>

InitStrip ==
    /\ pc = "strip_start"
    /\ idx = 0
    /\ articles = <<>>
    /\ log = <<>>
    /\ calls = <<>>
    /\ summary = None
    /\ hfResult = None
    /\ claudeResult = None
    /\ sendResult = "unset"
    /\ raisedIn = "none"
    /\ feeds = [f \in Feeds |-> [raises |-> FALSE, entries |-> 0]]
    /\ received = <<>>
    /\ raw \in Texts
    /\ once = <<>>
    /\ twice = <<>>

NextStrip == StripOnce \/ StripAgain \/ PostprocessBoth

SpecStrip == InitStrip /\ [][NextStrip]_vars

(***************************************************************************)
(* The claims.                                                             *)
(***************************************************************************)
HFName == "generate_summary_with_huggingface"

ClaudeName == "generate_summary_with_claude"

\* the positions of the calls main made to fn
CallsTo(fn) == {k \in 1..Len(calls) : calls[k].fn = fn}

\* a provider result that is absent, empty or carries the error indicator
NoDigest(x) == (~x.some) \/ x.text = <<>> \/ Contains(x.text, ErrorWord)

\* the number of articles of a sequence that come from source src, number n
CountFrom(arts, src, n) ==
    Cardinality({k \in 1..Len(arts) : arts[k].source = src /\ arts[k].from = n})

\* C1: whenever main calls send_email after the free-tier provider returned
\* an absent or empty result or one containing the error indicator, it has
\* called the primary provider before, with the article list it gave the
\* free-tier provider.
C1_FallbackBeforeDelivery ==
    \A k \in CallsTo("send_email") :
        NoDigest(hfResult) =>
            \E j \in CallsTo(ClaudeName), i \in CallsTo(HFName) :
                i < j /\ j < k /\ calls[j].args = calls[i].args

\* C1 witness: send_email was called after the free-tier provider returned a
\* text containing the error indicator, on a non-empty article list
C1_Witness ==
    /\ CallsTo("send_email") # {}
    /\ hfResult.some
    /\ Contains(hfResult.text, ErrorWord)
    /\ articles # <<>>

\* C2: when fetch_news_from_raw_rss returns, a feed whose fetch failed has
\* contributed no article and every other feed has contributed all its
\* entries.
C2_FailedFeedSparesOthers ==
    pc = "rss_done" =>
        \A f \in Feeds :
            CountFrom(articles, "rss", f)
                = (IF feeds[f].raises THEN 0 ELSE feeds[f].entries)

\* a query whose response came back with a status other than success, or
\* without a results array
NonSuccess(data) ==
    ~data.raises /\ ~(data.status = "success" /\ data.hasResults)

\* C3: a news-API query answered with a non-success status contributes no
\* article, leaves an error record naming it in the log, and is followed by
\* the next query of link_list, whose articles are collected.
C3_NonSuccessQuerySkipped ==
    \A i \in 1..Len(received) :
        NonSuccess(received[i]) =>
            /\ CountFrom(articles, "api", i) = 0
            /\ \E r \in 1..Len(log) :
                  log[r] = Log("error", "No results from endpoint", ToString(i))
            /\ i < NumQueries =>
                  \/ pc = "fetch_loop" /\ idx = i + 1
                  \/ /\ Len(received) > i
                     /\ \E r \in 1..Len(log) :
                           log[r] = Log("info", "Fetching from NewsData API",
                                        ToString(i + 1))
                     /\ (~received[i + 1].raises /\ ~NonSuccess(received[i + 1]))
                           => CountFrom(articles, "api", i + 1)
                                 = Len(MappedPrefix(received[i + 1].results))

\* C3 witness: the first query came back non-success and the second one
\* contributed an article
C3_Witness ==
    /\ pc = "fetch_done"
    /\ Len(received) = NumQueries
    /\ NonSuccess(received[1])
    /\ received[1].status = "error"
    /\ CountFrom(articles, "api", 2) > 0

\* C4: a call of send_email never raises: it returns True or False, and
\* False with an error record logged.
C4_SendEmailNeverRaises ==
    CallsTo("send_email") # {} =>
        /\ raisedIn # "send_email"
        /\ sendResult \in {"True", "False"}
        /\ sendResult = "False" =>
              \E r \in 1..Len(log) :
                  log[r].level = "error" /\ log[r].msg = "Error sending email"

\* C5: main ends without raising, having called send_email exactly once,
\* after the summarization.
C5_DeliveryAlwaysReached ==
    pc \in {"done", "raised"} =>
        /\ pc = "done"
        /\ raisedIn = "none"
        /\ Cardinality(CallsTo("send_email")) = 1
        /\ \A k \in CallsTo("send_email"), j \in CallsTo(HFName) : j < k

\* C6: the fence-stripping step is idempotent: applied to its own result it
\* gives that result.
C6_StripIdempotent ==
    pc \in {"strip_twice", "strip_done"} => twice = once

\* C7: the article list main gives a summarization provider holds the
\* articles of the news-API queries and an article for every entry the RSS
\* feeds serve.
C7_BothSourcesSummarized ==
    \A k \in CallsTo(HFName) \cup CallsTo(ClaudeName) :
        /\ calls[k].args = articles
        /\ \A f \in Feeds :
              CountFrom(calls[k].args, "rss", f) = feeds[f].entries

\* C8: neither summarization provider raises past its boundary on the
\* articles of the Collector.
C8_ProvidersNeverRaise ==
    raisedIn \notin {HFName, ClaudeName}

\* C9: for the same text returned by the model, the free-tier provider and
\* the primary provider return the same digest.
C9_ProvidersAgree ==
    pc = "strip_done" => hfResult = claudeResult

\* C10: the body main gives send_email is the free-tier result when that
\* result is non-empty and free of the substring Error, and then the
\* primary provider was not called; otherwise it is the result of the
\* primary provider, absent or not.
C10_BodyDetermined ==
    \A k \in CallsTo("send_email") :
        IF NoDigest(hfResult)
        THEN calls[k].body = claudeResult /\ CallsTo(ClaudeName) # {}
        ELSE calls[k].body = hfResult /\ CallsTo(ClaudeName) = {}

\* C10 witness: send_email was given the absent result of the primary
\* provider although the free-tier provider had returned a text
C10_Witness ==
    /\ \E k \in CallsTo("send_email") : calls[k].body = None
    /\ hfResult.some
    /\ hfResult.text # <<>>
    /\ CallsTo(ClaudeName) # {}

====
